---- MODULE Spec2Model ----
(***************************************************************************)
(* A model of api/index.py: the GET /api/analyze handler and its three     *)
(* helpers search_ticker, get_stock_data and web_search.                   *)
(*                                                                         *)
(* Text is a sequence of character codes ("Buy" is <<66, 117, 121>>), so   *)
(* that formatting, title-casing, link unwrapping and fuzzy matching are   *)
(* computed on characters.  A Python value is a tagged record: None,       *)
(* Str(s), Num(n) or Dict(d); a dict is a function from its present keys.  *)
(***************************************************************************)
EXTENDS Integers, Sequences, FiniteSets, TLC

VARIABLES
    pc,            \* position of the request handler analyze_company
    company_name,  \* the query parameter of the request (text)
    ticker,        \* value returned by search_ticker
    info_reply,    \* what stock.info produced (kept while history is fetched)
    stock_data,    \* value returned by get_stock_data
    official_name, \* line 155
    category,      \* index of the news category whose search is in flight
    news_analysis, \* results of the categories searched so far
    calls,         \* every outbound call issued by this request, in order
    completed,     \* how many of them have returned (or raised)
    response,      \* what the HTTP boundary sends back
    arg,           \* input of a helper applied on its own
    ret            \* its result

vars == <<pc, company_name, ticker, info_reply, stock_data, official_name,
          category, news_analysis, calls, completed, response, arg, ret>>

---------------------------------------------------------------------------
(* Bounds of the model *)

\* longest company name / candidate name, in characters
MaxNameLen == 2
\* longest candidate list returned by the ticker search
MaxQuotes == 2
\* most result elements on a search page
MaxPage == 3
\* largest num_results handed to web_search when it is applied on its own
MaxResults == 2

---------------------------------------------------------------------------
(* Python values *)

None == [t |-> "None"]
Str(s) == [t |-> "str", s |-> s]
Num(n) == [t |-> "num", n |-> n]
Dict(d) == [t |-> "dict", d |-> d]
List(l) == [t |-> "list", l |-> l]

EmptyDict == [k \in {} |-> None]

\* bool(v)
Truthy(v) ==
    CASE v.t = "None" -> FALSE
      [] v.t = "str" -> Len(v.s) > 0
      [] v.t = "num" -> v.n # 0
      [] v.t = "dict" -> DOMAIN v.d # {}
      [] v.t = "list" -> Len(v.l) > 0

\* a or b
Or(a, b) == IF Truthy(a) THEN a ELSE b

\* d.get(k, default) on a dict d
Get(d, k, default) == IF k \in DOMAIN d THEN d[k] ELSE default

\* the outcome of a call: a returned value or a raised exception
Return(v) == [raised |-> FALSE, value |-> v]
Raise(e) == [raised |-> TRUE, exc |-> e]

\* Exception classes that occur: requests.exceptions.RequestException (connection
\* errors, timeouts, HTTP error statuses), KeyError, AttributeError, and any other
\* subclass of Exception.
Exceptions == {"RequestException", "KeyError", "AttributeError", "Exception"}

---------------------------------------------------------------------------
(* Text *)

RECURSIVE Concat(_)
Concat(parts) == IF parts = <<>> THEN <<>> ELSE Head(parts) \o Concat(Tail(parts))

\* all texts over alphabet of length at most n
Texts(alphabet, n) == UNION {[1..k -> alphabet] : k \in 0..n}

Min(x, y) == IF x <= y THEN x ELSE y
Max(x, y) == IF x >= y THEN x ELSE y

IsUpper(c) == c \in 65..90
IsLower(c) == c \in 97..122
IsCased(c) == IsUpper(c) \/ IsLower(c)
ToUpper(c) == IF IsLower(c) THEN c - 32 ELSE c
ToLower(c) == IF IsUpper(c) THEN c + 32 ELSE c

\* s < t in Python's string order (lexicographic by code point)
RECURSIVE TextLess(_, _)
TextLess(s, t) ==
    IF t = <<>> THEN FALSE
    ELSE IF s = <<>> THEN TRUE
    ELSE IF Head(s) # Head(t) THEN Head(s) < Head(t)
    ELSE TextLess(Tail(s), Tail(t))

\* s.replace(old, new) for single characters
Replace(s, old, new) == [i \in 1..Len(s) |-> IF s[i] = old THEN new ELSE s[i]]

\* s.title(): a cased character is upper-cased when the character before it is
\* not cased, lower-cased otherwise
Title(s) ==
    [i \in 1..Len(s) |->
        IF i > 1 /\ IsCased(s[i - 1]) THEN ToLower(s[i]) ELSE ToUpper(s[i])]

\* decimal digits of a natural number
RECURSIVE Digits(_)
Digits(n) == IF n < 10 THEN <<48 + n>> ELSE Digits(n \div 10) \o <<48 + (n % 10)>>

NA == <<78, 47, 65>>                \* "N/A"
NoneText == <<78, 111, 110, 101>>   \* "None"

\* str(v) as an f-string interpolates it
Format(v) ==
    CASE v.t = "None" -> NoneText
      [] v.t = "str" -> v.s
      [] v.t = "num" -> Digits(v.n)

---------------------------------------------------------------------------
(* difflib, as search_ticker uses it (line 47)                             *)
(*                                                                         *)
(* SequenceMatcher(None, a, b) with a = a candidate name and b = the       *)
(* company name.  No character is junk: the "popular character" heuristic  *)
(* applies only when b has 200 characters or more.                         *)

\* length of the common run starting at a[i] and b[j], within a[..ahi], b[..bhi]
RECURSIVE RunLen(_, _, _, _, _, _)
RunLen(a, b, i, j, ahi, bhi) ==
    IF i > ahi \/ j > bhi THEN 0
    ELSE IF a[i] # b[j] THEN 0
    ELSE 1 + RunLen(a, b, i + 1, j + 1, ahi, bhi)

MaxOf(S) == CHOOSE m \in S : \A n \in S : m >= n
MinOf(S) == CHOOSE m \in S : \A n \in S : m <= n

\* the block of length k > 0 that starts at a[i], as early in b as possible
EarliestInB(a, b, i, k, ahi, blo, bhi) ==
    <<i, MinOf({j \in blo..bhi : RunLen(a, b, i, j, ahi, bhi) = k}), k>>

\* the block of length k, as early in a as possible
EarliestBlock(a, b, k, alo, ahi, blo, bhi) ==
    IF k = 0 THEN <<alo, blo, 0>>
    ELSE EarliestInB(a, b,
             MinOf({i \in alo..ahi : \E j \in blo..bhi : RunLen(a, b, i, j, ahi, bhi) = k}),
             k, ahi, blo, bhi)

\* SequenceMatcher.find_longest_match on a[alo..ahi], b[blo..bhi] (inclusive):
\* the longest matching block; of those the one starting earliest in a, and of
\* those the one starting earliest in b.  <<i, j, k>> with k = 0 if none.
find_longest_match(a, b, alo, ahi, blo, bhi) ==
    EarliestBlock(a, b,
        MaxOf({0} \cup {RunLen(a, b, i, j, ahi, bhi) : i \in alo..ahi, j \in blo..bhi}),
        alo, ahi, blo, bhi)

\* total size of SequenceMatcher.get_matching_blocks: the longest block m, then
\* recursively the pieces to its left and to its right
RECURSIVE MatchingSize(_, _, _, _, _, _)
AroundBlock(a, b, m, alo, ahi, blo, bhi) ==
    IF m[3] = 0 THEN 0
    ELSE MatchingSize(a, b, alo, m[1] - 1, blo, m[2] - 1)
         + m[3]
         + MatchingSize(a, b, m[1] + m[3], ahi, m[2] + m[3], bhi)
MatchingSize(a, b, alo, ahi, blo, bhi) ==
    AroundBlock(a, b, find_longest_match(a, b, alo, ahi, blo, bhi), alo, ahi, blo, bhi)

\* _calculate_ratio(matches, length) = 2.0 * matches / length, or 1.0 when length
\* is 0, kept as the fraction <<numerator, denominator>>
calculate_ratio(matches, length) ==
    IF length = 0 THEN <<1, 1>> ELSE <<2 * matches, length>>

\* SequenceMatcher.ratio()
ratio(a, b) ==
    calculate_ratio(MatchingSize(a, b, 1, Len(a), 1, Len(b)), Len(a) + Len(b))

Count(s, c) == Cardinality({i \in 1..Len(s) : s[i] = c})
RECURSIVE SumOver(_, _)
SumOver(f, S) ==
    IF S = {} THEN 0
    ELSE LET x == CHOOSE y \in S : TRUE IN f[x] + SumOver(f, S \ {x})

\* SequenceMatcher.quick_ratio(): characters in common, position ignored
quick_ratio(a, b) ==
    LET chars == {a[i] : i \in 1..Len(a)}
        common == [c \in chars |-> Min(Count(a, c), Count(b, c))]
    IN  calculate_ratio(SumOver(common, chars), Len(a) + Len(b))

\* SequenceMatcher.real_quick_ratio(): from the lengths alone
real_quick_ratio(a, b) == calculate_ratio(Min(Len(a), Len(b)), Len(a) + Len(b))

\* cutoff=0.6 of the call on line 47, as the fraction CutoffNum / CutoffDen
CutoffNum == 6
CutoffDen == 10

\* r >= cutoff and r < q on fractions with positive denominators
AtLeastCutoff(r) == r[1] * CutoffDen >= CutoffNum * r[2]
FracLess(r, q) == r[1] * q[2] < q[1] * r[2]

\* (score, x) < (score2, y) as Python orders tuples
ScoredLess(r, x, q, y) == FracLess(r, q) \/ (~FracLess(q, r) /\ TextLess(x, y))

\* the possibilities that pass the three ratio tests, cheapest test first
Passing(word, possibilities) ==
    {i \in 1..Len(possibilities) :
        /\ AtLeastCutoff(real_quick_ratio(possibilities[i], word))
        /\ AtLeastCutoff(quick_ratio(possibilities[i], word))
        /\ AtLeastCutoff(ratio(possibilities[i], word))}

\* heapq.nlargest(1, result) is max(result) over the (score, x) tuples: the
\* first of the greatest
Largest(possibilities, scores, pass) ==
    IF pass = {} THEN <<>>
    ELSE <<possibilities[MinOf({i \in pass : \A j \in pass :
              ~ScoredLess(scores[i], possibilities[i], scores[j], possibilities[j])})]>>

\* difflib.get_close_matches(word, possibilities, n=1, cutoff=0.6): a list
\* holding the best-scoring possibility that passes, or the empty list
get_close_matches(word, possibilities) ==
    Largest(possibilities,
            [i \in 1..Len(possibilities) |-> ratio(possibilities[i], word)],
            Passing(word, possibilities))

---------------------------------------------------------------------------
(* search_ticker (lines 34-60) *)

\* The reply to requests.get + raise_for_status + json: the decoded body, or a
\* raised exception.
\* a handler that catches nothing
SearchTickerCatches_Nothing(e) == FALSE

\* except requests.exceptions.RequestException (line 58)
SearchTickerCatches(e) == e = "RequestException"

\* q.get('longname') or q.get('shortname', '')   (line 46)
ListedName(q) == Or(Get(q, "longname", None), Get(q, "shortname", Str(<<>>)))
\* quote.get('longname') or quote.get('shortname')   (line 53)
LookupName(q) == Or(Get(q, "longname", None), Get(q, "shortname", None))

\* the lookup of lines 52-54 keeping the last quote of that name, not the first
FirstHit_Last(quotes, hits) ==
    IF hits = {} THEN Get(quotes[1], "symbol", None)
    ELSE Get(quotes[MaxOf(hits)], "symbol", None)

\* lines 52-56: the symbol of the first quote whose name is the chosen one, else
\* the symbol of the first quote
FirstHit(quotes, hits) ==
    IF hits = {} THEN Get(quotes[1], "symbol", None)
    ELSE Get(quotes[MinOf(hits)], "symbol", None)
SymbolOfName(quotes, name) ==
    FirstHit(quotes, {i \in 1..Len(quotes) : LookupName(quotes[i]) = Str(name)})

\* lines 49-56
SymbolOfMatch(quotes, best_match_name) ==
    IF best_match_name = <<>> THEN Get(quotes[1], "symbol", None)
    ELSE SymbolOfName(quotes, best_match_name[1])

\* lines 43-56
PickFrom(name, quotes) ==
    IF quotes = <<>> THEN None
    ELSE SymbolOfMatch(quotes,
             get_close_matches(name, [i \in 1..Len(quotes) |-> ListedName(quotes[i]).s]))

\* lines 42-56, on the decoded body
PickSymbol(name, data) == PickFrom(name, Get(data, "quotes", <<>>))

search_ticker(name, reply) ==
    IF reply.raised
    THEN IF SearchTickerCatches(reply.exc) THEN Return(None) ELSE Raise(reply.exc)
    ELSE Return(PickSymbol(name, reply.value))

---------------------------------------------------------------------------
(* get_stock_data (lines 62-96) *)

\* str(index.date()): the ISO form YYYY-MM-DD of a date [y, m, d]
Pad(n, width) ==
    LET ds == Digits(n)
    IN  [i \in 1..(width - Len(ds)) |-> 48] \o ds
IsoDate(date) == Concat(<<Pad(date.y, 4), <<45>>, Pad(date.m, 2), <<45>>, Pad(date.d, 2)>>)

\* round(x, 2) on a price kept in thousandths: the nearest multiple of ten
\* thousandths.  (A price ending in 5 thousandths rounds by its binary expansion;
\* the prices of the model do not end in 5.)
Round2(x) == 10 * ((x + 5) \div 10)

\* the check of line 67 without its trailing P/E half
InfoUsable_NotEmpty(info) == Truthy(Dict(info))

\* line 67: not (not info or info.get('trailingPE') is None)
InfoUsable(info) == Truthy(Dict(info)) /\ Get(info, "trailingPE", None) # None

\* stock.history is requested only past the check of line 67
HistoryRequested(info_r) == ~info_r.raised /\ InfoUsable(info_r.value)

\* lines 72-75: one {"date", "close"} entry per row; row['Close'] raises KeyError
\* when the frame has no such column
HistData(hist) ==
    IF \E i \in 1..Len(hist) : "Close" \notin DOMAIN hist[i]
    THEN Raise("KeyError")
    ELSE Return([i \in 1..Len(hist) |->
                    [date |-> Str(IsoDate(hist[i].date)),
                     close |-> Num(Round2(hist[i].Close))]])

\* line 90: info.get('recommendationKey', 'N/A').replace('_', ' ').title();
\* a value that is no string has no replace method
Recommendation(info) ==
    LET key == Get(info, "recommendationKey", Str(NA))
    IN  IF key.t # "str" THEN Raise("AttributeError")
        ELSE Return(Str(Title(Replace(key.s, 95, 32))))

\* lines 72-93: the snapshot, or the exception raised while building it
Snapshot(tick, info, hist) ==
    LET hist_data == HistData(hist)
        recommendation == Recommendation(info)
    IN  IF hist_data.raised THEN hist_data
        ELSE IF recommendation.raised THEN recommendation
        ELSE Return(Dict(
            [ticker |-> tick,
             company_name |-> Get(info, "longName", Str(NA)),
             exchange |-> Get(info, "exchange", Str(NA)),
             sector |-> Get(info, "sector", Str(NA)),
             industry |-> Get(info, "industry", Str(NA)),
             summary |-> Get(info, "longBusinessSummary", Str(NA)),
             current_price |-> Get(info, "currentPrice", None),
             market_cap |-> Get(info, "marketCap", None),
             fifty_two_week_range |->
                 Str(Concat(<<Format(Get(info, "fiftyTwoWeekLow", None)), <<32, 45, 32>>,
                              Format(Get(info, "fiftyTwoWeekHigh", None))>>)),
             pe_ratio |-> Get(info, "trailingPE", None),
             eps |-> Get(info, "trailingEps", None),
             dividend_yield |-> Get(info, "dividendYield", None),
             recommendation |-> recommendation.value,
             target_mean_price |-> Get(info, "targetMeanPrice", None),
             historical_prices |-> List(hist_data.value)]))

\* a handler for network errors only
StockDataCatches_RequestOnly(e) == e = "RequestException"

\* except Exception (line 94)
StockDataCatches(e) == e \in Exceptions

\* info_r and hist_r are what stock.info and stock.history produce: a value or a
\* raised exception.  hist_r is read only when the history is requested.
get_stock_data(tick, info_r, hist_r) ==
    LET body == IF info_r.raised THEN info_r
                ELSE IF ~InfoUsable(info_r.value) THEN Return(None)
                ELSE IF hist_r.raised THEN hist_r
                ELSE Snapshot(tick, info_r.value, hist_r.value)
    IN  IF body.raised /\ StockDataCatches(body.exc) THEN Return(None) ELSE body

---------------------------------------------------------------------------
(* web_search (lines 98-129) *)

UddgMarker == <<47, 108, 47, 63, 117, 100, 100, 103, 61>>   \* "/l/?uddg="
RutMarker == <<38, 114, 117, 116, 61>>                      \* "&rut="

\* the places where sep occurs in s
Occurrences(s, sep) ==
    {i \in 1..(Len(s) - Len(sep) + 1) : SubSeq(s, i, i + Len(sep) - 1) = sep}

\* s.split(sep)[-1]: what follows the last occurrence of sep (all of s if none)
AfterLast(s, sep) ==
    LET occ == Occurrences(s, sep)
    IN  IF occ = {} THEN s
        ELSE SubSeq(s, (CHOOSE i \in occ : \A j \in occ : i >= j) + Len(sep), Len(s))

\* s.split(sep)[0]: what precedes the first occurrence of sep (all of s if none)
BeforeFirst(s, sep) ==
    LET occ == Occurrences(s, sep)
    IN  IF occ = {} THEN s
        ELSE SubSeq(s, 1, (CHOOSE i \in occ : \A j \in occ : i <= j) - 1)

IsHex(c) == c \in 48..57 \/ c \in 65..70 \/ c \in 97..102
HexValue(c) == IF c \in 48..57 THEN c - 48 ELSE IF c \in 65..70 THEN c - 55 ELSE c - 87

\* urllib.parse.unquote on ASCII text: %XX becomes the character XX, a % not
\* followed by two hex digits stays
RECURSIVE unquote(_)
unquote(s) ==
    IF s = <<>> THEN <<>>
    ELSE IF s[1] = 37 /\ Len(s) >= 3 /\ IsHex(s[2]) /\ IsHex(s[3])
         THEN <<16 * HexValue(s[2]) + HexValue(s[3])>> \o unquote(SubSeq(s, 4, Len(s)))
         ELSE <<s[1]>> \o unquote(Tail(s))

\* line 121
CleanLink(raw_link) == unquote(BeforeFirst(AfterLast(raw_link, UddgMarker), RutMarker))

\* A result element of the page: a dict with an optional "a" (the .result__a
\* anchor: its text and, optionally, its href) and an optional "snippet" (the
\* text of .result__snippet).  title_tag and link_tag are the same anchor.
\* line 115: title_tag and link_tag and snippet_tag (a Tag is always truthy)
AllTagsFound(el) == "a" \in DOMAIN el /\ "a" \in DOMAIN el /\ "snippet" \in DOMAIN el

\* lines 118-124 for one element; link_tag['href'] raises KeyError when the
\* anchor has no href attribute
ExtractItem(el) ==
    IF "href" \notin DOMAIN el.a THEN Raise("KeyError")
    ELSE Return([title |-> Str(el.a.text),
                 link |-> Str(CleanLink(el.a.href)),
                 snippet |-> Str(el.snippet)])

\* lines 109-126: the loop over soup.select('.result')[:num_results]
RECURSIVE ExtractAll(_)
ExtractAll(els) ==
    IF els = <<>> THEN Return(<<>>)
    ELSE IF ~AllTagsFound(Head(els)) THEN ExtractAll(Tail(els))
    ELSE LET item == ExtractItem(Head(els))
             rest == ExtractAll(Tail(els))
         IN  IF item.raised THEN item
             ELSE IF rest.raised THEN rest
             ELSE Return(<<item.value>> \o rest.value)

\* except requests.exceptions.RequestException (line 127)
WebSearchCatches(e) == e = "RequestException"

\* reply is what requests.get + raise_for_status + the parse of the page produce:
\* the elements matching .result, or a raised exception
web_search(query, num_results, reply) ==
    LET body == IF reply.raised THEN reply
                ELSE LET got == ExtractAll(SubSeq(reply.value, 1,
                                                  Min(num_results, Len(reply.value))))
                     IN  IF got.raised THEN got ELSE Return(List(got.value))
    IN  IF body.raised /\ WebSearchCatches(body.exc) THEN Return(List(<<>>)) ELSE body

---------------------------------------------------------------------------
(* analyze_company (lines 135-172) *)

\* the categories with the first two in the other order
NewsQueries_Swapped ==
    <<[category |-> "financial_news",
       before |-> <<>>,
       after |-> <<32, 102, 105, 110, 97, 110, 99, 105, 97, 108, 32, 110, 101, 119,
                   115, 32, 79, 82, 32, 101, 97, 114, 110, 105, 110, 103, 115>>],
      [category |-> "company_news",
       before |-> <<110, 101, 119, 115, 32, 97, 98, 111, 117, 116, 32>>,
       after |-> <<>>],
      [category |-> "investor_relations",
       before |-> <<105, 110, 118, 101, 115, 116, 111, 114, 115, 32, 111, 102, 32>>,
       after |-> <<32, 79, 82, 32, 115, 104, 97, 114, 101, 104, 111, 108, 100, 101,
                   114, 32, 117, 112, 100, 97, 116, 101, 115>>],
      [category |-> "market_outlook",
       before |-> <<>>,
       after |-> <<32, 109, 97, 114, 107, 101, 116, 32, 97, 110, 97, 108, 121, 115,
                   105, 115, 32, 97, 110, 100, 32, 102, 117, 116, 117, 114, 101, 32,
                   111, 117, 116, 108, 111, 111, 107>>]>>

\* lines 158-163, in the order the dict literal evaluates them: the category and
\* the text around the official name in its query
NewsQueries ==
    <<[category |-> "company_news",
       before |-> <<110, 101, 119, 115, 32, 97, 98, 111, 117, 116, 32>>,
       after |-> <<>>],
      [category |-> "financial_news",
       before |-> <<>>,
       after |-> <<32, 102, 105, 110, 97, 110, 99, 105, 97, 108, 32, 110, 101, 119,
                   115, 32, 79, 82, 32, 101, 97, 114, 110, 105, 110, 103, 115>>],
      [category |-> "investor_relations",
       before |-> <<105, 110, 118, 101, 115, 116, 111, 114, 115, 32, 111, 102, 32>>,
       after |-> <<32, 79, 82, 32, 115, 104, 97, 114, 101, 104, 111, 108, 100, 101,
                   114, 32, 117, 112, 100, 97, 116, 101, 115>>],
      [category |-> "market_outlook",
       before |-> <<>>,
       after |-> <<32, 109, 97, 114, 107, 101, 116, 32, 97, 110, 97, 108, 121, 115,
                   105, 115, 32, 97, 110, 100, 32, 102, 117, 116, 117, 114, 101, 32,
                   111, 117, 116, 108, 111, 111, 107>>]>>

\* the f-string of category i
QueryText(i, name) == Concat(<<NewsQueries[i].before, Format(name), NewsQueries[i].after>>)

\* num_results of the four calls: the default of line 98
DefaultNumResults == 5

\* line 155: stock_data.get('company_name', company_name)
OfficialName(data, submitted) == Get(data.d, "company_name", Str(submitted))

\* line 142
EmptyNameResponse ==
    [status |-> 400,
     detail |-> <<67, 111, 109, 112, 97, 110, 121, 32, 110, 97, 109, 101, 32, 99, 97,
                  110, 110, 111, 116, 32, 98, 101, 32, 101, 109, 112, 116, 121, 46>>]
\* line 147
NoTickerResponse(name) ==
    [status |-> 404,
     detail |-> Concat(<<<<67, 111, 117, 108, 100, 32, 110, 111, 116, 32, 102, 105,
                           110, 100, 32, 97, 32, 115, 116, 111, 99, 107, 32, 116, 105,
                           99, 107, 101, 114, 32, 102, 111, 114, 32, 39>>,
                         name, <<39, 46>>>>)]
\* line 152
NoDataResponse(tick) ==
    [status |-> 404,
     detail |-> Concat(<<<<67, 111, 117, 108, 100, 32, 110, 111, 116, 32, 114, 101,
                           116, 114, 105, 101, 118, 101, 32, 102, 105, 110, 97, 110,
                           99, 105, 97, 108, 32, 100, 97, 116, 97, 32, 102, 111, 114,
                           32, 116, 105, 99, 107, 101, 114, 32, 39>>,
                         Format(tick),
                         <<39, 46, 32, 84, 104, 101, 32, 99, 111, 109, 112, 97, 110,
                           121, 32, 109, 105, 103, 104, 116, 32, 98, 101, 32, 100, 101,
                           108, 105, 115, 116, 101, 100, 32, 111, 114, 32, 100, 97,
                           116, 97, 32, 105, 115, 32, 117, 110, 97, 118, 97, 105, 108,
                           97, 98, 108, 101, 46>>>>)]
\* lines 166-172
OkResponse(name, data, news) ==
    [status |-> 200,
     content |-> [query |-> Str(name), financial_data |-> data, news_analysis |-> news]]
\* an exception that leaves the handler: the framework answers 500
ErrorResponse(e) == [status |-> 500, exc |-> e]

NoResponse == [status |-> 0]
NoNews == [c \in {} |-> None]

Call(api, text) == [api |-> api, arg |-> text]

Finish(resp) ==
    /\ pc' = "done"
    /\ response' = resp

\* lines 141-145: the emptiness check, then the ticker search is sent
Request(name) ==
    /\ pc = "idle"
    /\ company_name' = name
    /\ IF ~Truthy(Str(name))
       THEN /\ Finish(EmptyNameResponse)
            /\ UNCHANGED calls
       ELSE /\ pc' = "search_ticker"
            /\ calls' = Append(calls, Call("ticker_search", name))
            /\ UNCHANGED response
    /\ UNCHANGED <<ticker, info_reply, stock_data, official_name, category,
                   news_analysis, completed, arg, ret>>

\* lines 145-150 once search_ticker has produced r: 404, or stock.info is requested
TickerReturned(r) ==
    IF r.raised
    THEN Finish(ErrorResponse(r.exc)) /\ UNCHANGED <<ticker, calls>>
    ELSE /\ ticker' = r.value
         /\ IF ~Truthy(r.value)
            THEN Finish(NoTickerResponse(company_name)) /\ UNCHANGED calls
            ELSE /\ pc' = "info"
                 /\ calls' = Append(calls, Call("info", r.value.s))
                 /\ UNCHANGED response

\* the ticker search returns or raises
TickerReply(reply) ==
    /\ pc = "search_ticker"
    /\ completed' = completed + 1
    /\ TickerReturned(search_ticker(company_name, reply))
    /\ UNCHANGED <<company_name, info_reply, stock_data, official_name, category,
                   news_analysis, arg, ret>>

\* lines 150-159 once get_stock_data has produced sd: 404, or the first news
\* search is sent
StockDataReturned(sd) ==
    IF sd.raised
    THEN Finish(ErrorResponse(sd.exc))
         /\ UNCHANGED <<stock_data, official_name, category, calls>>
    ELSE /\ stock_data' = sd.value
         /\ IF ~Truthy(sd.value)
            THEN Finish(NoDataResponse(ticker))
                 /\ UNCHANGED <<official_name, category, calls>>
            ELSE /\ official_name' = OfficialName(sd.value, company_name)
                 /\ category' = 1
                 /\ calls' = Append(calls, Call("web_search", QueryText(1, official_name')))
                 /\ pc' = "web_search"
                 /\ UNCHANGED response

\* lines 66-71: stock.info returns or raises; the history is requested, or
\* get_stock_data returns without it
InfoReply(reply) ==
    /\ pc = "info"
    /\ completed' = completed + 1
    /\ info_reply' = reply
    /\ IF HistoryRequested(reply)
       THEN /\ pc' = "history"
            /\ calls' = Append(calls, Call("history", ticker.s))
            /\ UNCHANGED <<stock_data, official_name, category, response>>
       ELSE StockDataReturned(get_stock_data(ticker, reply, Return(<<>>)))
    /\ UNCHANGED <<company_name, ticker, news_analysis, arg, ret>>

\* lines 71-96: stock.history returns or raises; get_stock_data returns
HistoryReply(reply) ==
    /\ pc = "history"
    /\ completed' = completed + 1
    /\ StockDataReturned(get_stock_data(ticker, info_reply, reply))
    /\ UNCHANGED <<company_name, ticker, info_reply, news_analysis, arg, ret>>

\* lines 158-172 once web_search has produced r for the current category: the
\* next search is sent, or the response is built
SearchReturned(r) ==
    IF r.raised
    THEN Finish(ErrorResponse(r.exc)) /\ UNCHANGED <<category, news_analysis, calls>>
    ELSE /\ news_analysis' =
                [c \in DOMAIN news_analysis \cup {NewsQueries[category].category} |->
                    IF c = NewsQueries[category].category THEN r.value
                    ELSE news_analysis[c]]
         /\ IF category < Len(NewsQueries)
            THEN /\ category' = category + 1
                 /\ calls' = Append(calls,
                        Call("web_search", QueryText(category + 1, official_name)))
                 /\ UNCHANGED <<pc, response>>
            ELSE /\ Finish(OkResponse(company_name, stock_data, news_analysis'))
                 /\ UNCHANGED <<category, calls>>

\* the search of the current category returns or raises
SearchReply(reply) ==
    /\ pc = "web_search"
    /\ completed' = completed + 1
    /\ SearchReturned(web_search(calls[Len(calls)].arg, DefaultNumResults, reply))
    /\ UNCHANGED <<company_name, ticker, info_reply, stock_data, official_name, arg, ret>>

---------------------------------------------------------------------------
(* What the request and the three upstream services can send *)

Absent == [t |-> "absent"]
\* the dict holding the entries of f that are not Absent
MakeDict(f) == [k \in {x \in DOMAIN f : f[x] # Absent} |-> f[k]]

\* all lists over S of length lo..hi
Lists(S, lo, hi) == UNION {[1..n -> S] : n \in lo..hi}

\* the company_name parameter: blanks and letters, the empty text included
CompanyNames == Texts({32, 97}, MaxNameLen)

\* replies of the ticker search to a request: a network failure, a body without
\* "quotes", an empty candidate list, and lists of two known candidates
KnownQuotes ==
    {[longname |-> Str(<<97>>), symbol |-> Str(<<88>>)],
     [shortname |-> Str(<<97, 97>>), symbol |-> Str(<<89>>)]}
TickerReplies ==
    {Raise("RequestException"), Return(EmptyDict), Return([quotes |-> <<>>])}
    \cup {Return([quotes |-> l]) : l \in Lists(KnownQuotes, 1, MaxQuotes)}

\* stock.info: any exception, or a metadata dict in which every field may be
\* missing and the nullable ones may be null
Infos ==
    {MakeDict(f) : f \in [trailingPE : {Absent, None, Num(25)},
                          longName : {Absent, None, Str(<<65, 98>>)},
                          recommendationKey : {Absent, None, Str(<<98, 117, 121>>),
                              Str(<<115, 116, 114, 111, 110, 103, 95, 98, 117, 121>>)},
                          sector : {Absent, Str(<<84>>)}]}
InfoReplies == {Raise(e) : e \in Exceptions} \cup {Return(i) : i \in Infos}

\* stock.history: an exception, or rows in date order; a frame without the
\* Close column gives rows without it
Day1 == [y |-> 2024, m |-> 1, d |-> 2]
Day2 == [y |-> 2024, m |-> 1, d |-> 3]
Histories ==
    {<<>>,
     <<[date |-> Day1, Close |-> 1234], [date |-> Day2, Close |-> 1236]>>,
     <<[date |-> Day1]>>}
HistoryReplies == {Raise("RequestException"), Raise("Exception")}
                  \cup {Return(h) : h \in Histories}

\* result elements of a search page
Wrapped == <<47, 108, 47, 63, 117, 100, 100, 103, 61, 97, 37, 50, 70, 98, 38, 114,
             117, 116, 61, 99>>      \* "/l/?uddg=a%2Fb&rut=c"
Direct == <<120>>                    \* "x"
Anchors ==
    {[text |-> <<84>>],
     [text |-> <<84>>, href |-> Wrapped],
     [text |-> <<85>>, href |-> Direct]}
Elements ==
    {[a |-> x, snippet |-> <<115>>] : x \in Anchors}
    \cup {[a |-> x] : x \in Anchors}
    \cup {[snippet |-> <<115>>], EmptyDict}
Complete1 == [a |-> [text |-> <<84>>, href |-> Wrapped], snippet |-> <<115>>]
Complete2 == [a |-> [text |-> <<85>>, href |-> Direct], snippet |-> <<115>>]
NoHref == [a |-> [text |-> <<84>>], snippet |-> <<115>>]
NoSnippet == [a |-> [text |-> <<84>>, href |-> Wrapped]]

\* replies to a news search of a request: a network failure, an empty page, a
\* page with more elements than num_results, a page with an incomplete element,
\* a page whose anchor has no href
RequestPages ==
    {<<>>,
     [i \in 1..(DefaultNumResults + 1) |-> IF i % 2 = 1 THEN Complete1 ELSE Complete2],
     <<NoSnippet, Complete2>>,
     <<NoHref>>}
SearchReplies == {Raise("RequestException")} \cup {Return(p) : p \in RequestPages}

---------------------------------------------------------------------------
(* The request handler *)

Idle ==
    /\ company_name = <<>>
    /\ ticker = None
    /\ info_reply = Return(EmptyDict)
    /\ stock_data = None
    /\ official_name = None
    /\ category = 0
    /\ news_analysis = NoNews
    /\ calls = <<>>
    /\ completed = 0
    /\ response = NoResponse

Init ==
    /\ pc = "idle"
    /\ Idle
    /\ arg = <<>>
    /\ ret = <<>>

Next ==
    \/ \E name \in CompanyNames : Request(name)
    \/ \E reply \in TickerReplies : TickerReply(reply)
    \/ \E reply \in InfoReplies : InfoReply(reply)
    \/ \E reply \in HistoryReplies : HistoryReply(reply)
    \/ \E reply \in SearchReplies : SearchReply(reply)

Spec == Init /\ [][Next]_vars

---------------------------------------------------------------------------
(* search_ticker applied on its own to a name and a candidate list *)

\* search_ticker is called with non-empty names only (line 141)
TickerNames == Texts({97, 98}, MaxNameLen) \ {<<>>}

\* the names a candidate may carry: a long name alone; no long name or an empty
\* one, with or without a short name; a long name and a short name
CandidateNames ==
    {[longname |-> Str(t)] : t \in Texts({97, 98}, MaxNameLen) \ {<<>>}}
    \cup {MakeDict(f) : f \in [longname : {Absent, Str(<<>>)},
                               shortname : {Absent, Str(<<98>>)}]}
    \cup {[longname |-> Str(<<97>>), shortname |-> Str(<<98>>)]}

\* candidate i has symbol "S<i>"
WithSymbols(l) ==
    [i \in 1..Len(l) |->
        [k \in DOMAIN l[i] \cup {"symbol"} |->
            IF k = "symbol" THEN Str(<<83, 48 + i>>) ELSE l[i][k]]]

CandidateLists == {WithSymbols(l) : l \in Lists(CandidateNames, 0, MaxQuotes)}

InitTicker ==
    /\ pc = "call_search_ticker"
    /\ Idle
    /\ arg \in [name : TickerNames, quotes : CandidateLists]
    /\ ret = <<>>

ApplySearchTicker ==
    /\ pc = "call_search_ticker"
    /\ ret' = search_ticker(arg.name, Return([quotes |-> arg.quotes]))
    /\ pc' = "returned"
    /\ UNCHANGED <<company_name, ticker, info_reply, stock_data, official_name,
                   category, news_analysis, calls, completed, response, arg>>

NextTicker == ApplySearchTicker

SpecTicker == InitTicker /\ [][NextTicker]_vars

---------------------------------------------------------------------------
(* web_search applied on its own to a page and a num_results *)

Pages == Lists(Elements, 0, MaxPage)

InitWebSearch ==
    /\ pc = "call_web_search"
    /\ Idle
    /\ arg \in [page : Pages, num_results : 0..MaxResults]
    /\ ret = <<>>

ApplyWebSearch ==
    /\ pc = "call_web_search"
    /\ ret' = web_search(<<>>, arg.num_results, Return(arg.page))
    /\ pc' = "returned"
    /\ UNCHANGED <<company_name, ticker, info_reply, stock_data, official_name,
                   category, news_analysis, calls, completed, response, arg>>

NextWebSearch == ApplyWebSearch

SpecWebSearch == InitWebSearch /\ [][NextWebSearch]_vars

---------------------------------------------------------------------------
(* Properties *)

Contains(s, part) == Occurrences(s, part) # {}
Quoted(t) == <<39>> \o t \o <<39>>
IsBlank(name) == \A i \in 1..Len(name) : name[i] = 32
CallsTo(api) == {i \in 1..Len(calls) : calls[i].api = api}

\* C1: a request whose company_name is empty or only whitespace is answered 400
\* and makes no outbound call.
C1_BlankNameRejected ==
    (pc # "idle" /\ IsBlank(company_name))
        => (pc = "done" /\ response.status = 400 /\ calls = <<>>)

ParseFails(page) ==
    \E i \in 1..Min(DefaultNumResults, Len(page)) :
        /\ "a" \in DOMAIN page[i]
        /\ "snippet" \in DOMAIN page[i]
        /\ "href" \notin DOMAIN page[i].a
FailingSearchReplies ==
    {r \in SearchReplies : IF r.raised THEN TRUE ELSE ParseFails(r.value)}
\* C2: when the search call of one category fails (a network error or timeout, or
\* a failure while the result page is parsed), that category gets the empty list,
\* the categories already searched keep their results, and the request goes on to
\* its 200 response.
C2_FailedSearchIsolated ==
    [][\A reply \in FailingSearchReplies :
          SearchReply(reply) =>
              /\ response'.status \in {0, 200}
              /\ DOMAIN news_analysis' = DOMAIN news_analysis \cup
                                              {NewsQueries[category].category}
              /\ \A c \in DOMAIN news_analysis' :
                    news_analysis'[c] = IF c \in DOMAIN news_analysis
                                        THEN news_analysis[c] ELSE List(<<>>)]_vars

\* the 404 of line 152 for the ticker in hand
AnswersNoData(resp, tick) ==
    /\ resp.status = 404
    /\ Contains(resp.detail, Quoted(tick.s))

LacksTrailingPE(info) ==
    \/ DOMAIN info = {}
    \/ "trailingPE" \notin DOMAIN info
    \/ info["trailingPE"] = None
\* C3: when the metadata of a resolved ticker is empty or has no trailing P/E
\* value, whatever its other fields hold, the request ends with a 404 whose detail
\* names the ticker, and neither the price history nor a web search is requested.
C3_NoTrailingPE ==
    (completed >= 2 /\ ~info_reply.raised /\ LacksTrailingPE(info_reply.value))
        => /\ pc = "done"
           /\ AnswersNoData(response, ticker)
           /\ CallsTo("history") = {}
           /\ CallsTo("web_search") = {}
C3_Witness ==
    /\ completed >= 2
    /\ ~info_reply.raised
    /\ DOMAIN info_reply.value = {"longName", "recommendationKey", "sector"}
    /\ response.status = 404

NoCandidateReplies ==
    {Raise("RequestException"), Return(EmptyDict), Return([quotes |-> <<>>])}
\* C4: when the ticker search returns no candidates or fails with a network
\* error, search_ticker returns None without raising and the request ends with a
\* 404 whose detail names the submitted company name; the response is the same
\* in both cases, and no further call is made.
C4_TickerNotFound ==
    [][\A reply \in NoCandidateReplies :
          TickerReply(reply) =>
              /\ search_ticker(company_name, reply) = Return(None)
              /\ pc' = "done"
              /\ response'.status = 404
              /\ Contains(response'.detail, Quoted(company_name))
              /\ response' = NoTickerResponse(company_name)
              /\ calls' = calls]_vars
C4_Witness ==
    /\ pc = "done"
    /\ completed = 1
    /\ response.status = 404
    /\ Contains(response.detail, Quoted(company_name))

StrongBuyKey == <<115, 116, 114, 111, 110, 103, 95, 98, 117, 121>>   \* "strong_buy"
StrongBuyLabel == <<83, 116, 114, 111, 110, 103, 32, 66, 117, 121>>  \* "Strong Buy"
ExpectedRecommendation(info) ==
    IF "recommendationKey" \notin DOMAIN info THEN Str(NA)
    ELSE IF info["recommendationKey"] = None THEN Str(NA)
    ELSE IF info["recommendationKey"] = Str(StrongBuyKey) THEN Str(StrongBuyLabel)
    ELSE Str(Title(Replace(info["recommendationKey"].s, 95, 32)))
HasCloseColumn(hist) == \A i \in 1..Len(hist) : "Close" \in DOMAIN hist[i]
\* C5: in the snapshot get_stock_data returns for usable metadata and a price
\* history, the recommendation is the label with underscores replaced by spaces
\* and title-cased ("strong_buy" gives "Strong Buy"), and "N/A" when the label is
\* None or absent.
C5_RecommendationNormalized ==
    [][\A reply \in HistoryReplies :
          (HistoryReply(reply) /\ ~reply.raised /\ HasCloseColumn(reply.value)) =>
              /\ stock_data'.t = "dict"
              /\ stock_data'.d["recommendation"] =
                     ExpectedRecommendation(info_reply.value)]_vars

CallOrder ==
    <<"ticker_search", "info", "history",
      "web_search", "web_search", "web_search", "web_search">>
CategoryOrder ==
    <<"company_news", "financial_news", "investor_relations", "market_outlook">>
StartsWith(s, part) == Len(part) <= Len(s) /\ SubSeq(s, 1, Len(part)) = part
EndsWith(s, part) ==
    Len(part) <= Len(s) /\ SubSeq(s, Len(s) - Len(part) + 1, Len(s)) = part
\* C6: the outbound calls of a request are, in this order, the ticker search, the
\* metadata, the price history and the searches for company_news, financial_news,
\* investor_relations and market_outlook; a call is sent only when every earlier
\* one has returned, none is sent twice, and none is sent after the ticker
\* resolution or the financial fetch has failed.
C6_CallOrder ==
    /\ Len(calls) <= Len(CallOrder)
    /\ \A i \in 1..Len(calls) : calls[i].api = CallOrder[i]
    /\ Len(calls) >= 4 =>
           StartsWith(calls[4].arg, <<110, 101, 119, 115, 32, 97, 98, 111, 117, 116, 32>>)
    /\ Len(calls) >= 5 =>
           EndsWith(calls[5].arg, <<32, 79, 82, 32, 101, 97, 114, 110, 105, 110, 103, 115>>)
    /\ Len(calls) >= 6 =>
           StartsWith(calls[6].arg, <<105, 110, 118, 101, 115, 116, 111, 114, 115, 32>>)
    /\ Len(calls) >= 7 =>
           EndsWith(calls[7].arg, <<32, 111, 117, 116, 108, 111, 111, 107>>)
    /\ DOMAIN news_analysis \subseteq {CategoryOrder[i] : i \in 1..Max(0, completed - 3)}
    /\ {CategoryOrder[i] : i \in 1..Max(0, completed - 4)} \subseteq DOMAIN news_analysis
    /\ completed <= Len(calls)
    /\ Len(calls) <= completed + 1
    /\ pc = "done" => Len(calls) = completed
    /\ (pc = "done" /\ response.status = 404 /\ ticker = None) => Len(calls) = 1
    /\ (pc = "done" /\ response.status = 404 /\ ticker # None) =>
           (Len(calls) \in {2, 3} /\ CallsTo("web_search") = {})
    /\ (completed >= 2 /\ (info_reply.raised \/ ~("trailingPE" \in DOMAIN info_reply.value)))
           => Len(calls) = 2
C6_Witness ==
    /\ pc = "done"
    /\ response.status = 200
    /\ Len(calls) = 7
    /\ completed = 7

NameOf(q) ==
    IF "longname" \in DOMAIN q /\ q["longname"].s # <<>> THEN q["longname"].s
    ELSE IF "shortname" \in DOMAIN q THEN q["shortname"].s
    ELSE <<>>
Similarity(q) == ratio(NameOf(q), arg.name)
Clears(q) == 10 * Similarity(q)[1] >= 6 * Similarity(q)[2]
NoneCloser(qs, k) ==
    \A j \in 1..Len(qs) :
        Similarity(qs[j])[1] * Similarity(qs[k])[2]
            <= Similarity(qs[k])[1] * Similarity(qs[j])[2]
\* C7: for a non-empty candidate list, with the name of a candidate its long
\* name, else its short name: if some name has similarity at least 0.6 to the
\* input, search_ticker returns the symbol of the first candidate carrying the
\* best-matching name (a name of greatest similarity); if none has, the symbol of
\* the first candidate.
C7_SelectionRule ==
    (pc = "returned" /\ arg.quotes # <<>>) =>
        /\ ~ret.raised
        /\ IF \E i \in 1..Len(arg.quotes) : Clears(arg.quotes[i])
           THEN \E k \in 1..Len(arg.quotes) :
                   /\ Clears(arg.quotes[k])
                   /\ NoneCloser(arg.quotes, k)
                   /\ \A j \in 1..(k - 1) : NameOf(arg.quotes[j]) # NameOf(arg.quotes[k])
                   /\ ret.value = arg.quotes[k]["symbol"]
           ELSE ret.value = arg.quotes[1]["symbol"]
\* two candidates carry the same name, it clears the cutoff, and the symbol of
\* the first of them is returned
C7_Witness ==
    /\ pc = "returned"
    /\ Len(arg.quotes) = 2
    /\ NameOf(arg.quotes[1]) = NameOf(arg.quotes[2])
    /\ Clears(arg.quotes[1])
    /\ ret.value = arg.quotes[1]["symbol"]
\* no candidate clears the cutoff and the first one is returned
C7_FallbackWitness ==
    /\ pc = "returned"
    /\ Len(arg.quotes) = 2
    /\ ~Clears(arg.quotes[1])
    /\ ~Clears(arg.quotes[2])
    /\ ret.value = arg.quotes[1]["symbol"]

ProjectionRaises(info, hist) ==
    \/ ~HasCloseColumn(hist)
    \/ ("recommendationKey" \in DOMAIN info /\ info["recommendationKey"].t # "str")
NoDataAnswered ==
    /\ stock_data' = None
    /\ pc' = "done"
    /\ AnswersNoData(response', ticker)
    /\ calls' = calls
\* C8: an exception raised while the metadata or the price history is fetched,
\* or while the snapshot is built from them, does not leave get_stock_data: it
\* returns None and the request ends with the 404 that names the ticker.
C8_ExceptionsBecomeNoData ==
    [][/\ \A reply \in InfoReplies :
             (reply.raised /\ InfoReply(reply)) => NoDataAnswered
       /\ \A reply \in HistoryReplies :
             (HistoryReply(reply)
              /\ IF reply.raised THEN TRUE
                 ELSE ProjectionRaises(info_reply.value, reply.value))
                 => NoDataAnswered]_vars
\* the history was fetched and the request ended without data
C8_Witness ==
    /\ pc = "done"
    /\ completed = 3
    /\ stock_data = None
    /\ AnswersNoData(response, ticker)

HasAllThree(el) ==
    /\ "a" \in DOMAIN el
    /\ "href" \in DOMAIN el.a
    /\ "snippet" \in DOMAIN el
ItemOf(el) ==
    [title |-> Str(el.a.text), link |-> Str(CleanLink(el.a.href)), snippet |-> Str(el.snippet)]
RECURSIVE CompleteItems(_)
CompleteItems(els) ==
    IF els = <<>> THEN <<>>
    ELSE IF HasAllThree(Head(els)) THEN <<ItemOf(Head(els))>> \o CompleteItems(Tail(els))
    ELSE CompleteItems(Tail(els))
\* C9: web_search(query, N) returns, in page order, the items of exactly those of
\* the first N result elements that have title, link and snippet: never more than
\* N items, none without one of the three, and it does not fail on an element
\* that lacks one.
C9_CompleteResultsOnly ==
    pc = "returned" =>
        /\ ~ret.raised
        /\ ret.value = List(CompleteItems(SubSeq(arg.page, 1,
                                                 Min(arg.num_results, Len(arg.page)))))

BuiltFrom(i, text) ==
    calls[3 + i].arg = Concat(<<NewsQueries[i].before, text, NewsQueries[i].after>>)
HasNoLongName(info) ==
    IF "longName" \notin DOMAIN info THEN TRUE ELSE info["longName"] = None
\* C10: every news query of a request is built from the company_name of the
\* snapshot and never from the submitted name, and when the metadata has no long
\* name the four queries are built from "N/A".
C10_QueriesFromSnapshotName ==
    \A i \in 1..(Len(calls) - 3) :
        /\ BuiltFrom(i, Format(stock_data.d["company_name"]))
        /\ ~BuiltFrom(i, company_name)
        /\ HasNoLongName(info_reply.value) => BuiltFrom(i, NA)

---------------------------------------------------------------------------
(* What does hold of the code where C1, C2, C5, C9 and C10 fail *)

\* the empty name alone is answered 400 with no outbound call
EmptyNameRejected ==
    (pc # "idle" /\ company_name = <<>>)
        => (pc = "done" /\ response = EmptyNameResponse /\ calls = <<>>)

\* a search call that fails in the network is isolated as C2 says
NetworkFailureIsolated ==
    [][\A reply \in {r \in SearchReplies : r.raised} :
          SearchReply(reply) =>
              /\ response'.status \in {0, 200}
              /\ \A c \in DOMAIN news_analysis' :
                    news_analysis'[c] = IF c \in DOMAIN news_analysis
                                        THEN news_analysis[c] ELSE List(<<>>)]_vars

\* a label that is a string, or absent, is normalized as C5 says
StringRecommendationNormalized ==
    [][\A reply \in HistoryReplies :
          (/\ HistoryReply(reply)
           /\ ~reply.raised
           /\ HasCloseColumn(reply.value)
           /\ Get(info_reply.value, "recommendationKey", Str(NA)) # None) =>
              /\ stock_data'.t = "dict"
              /\ stock_data'.d["recommendation"] =
                     ExpectedRecommendation(info_reply.value)]_vars

\* a null label makes get_stock_data return None
NullRecommendationIsNoData ==
    [][\A reply \in HistoryReplies :
          (HistoryReply(reply) /\ Get(info_reply.value, "recommendationKey", Str(NA)) = None)
              => (stock_data' = None /\ response'.status = 404)]_vars

\* web_search is as C9 says on pages whose anchors all have an href
CompleteResultsWhenAnchorsHaveHref ==
    (pc = "returned" /\ ~ParseFails(SubSeq(arg.page, 1, Min(arg.num_results, Len(arg.page)))))
        => /\ ~ret.raised
           /\ ret.value = List(CompleteItems(SubSeq(arg.page, 1,
                                                    Min(arg.num_results, Len(arg.page)))))
           /\ Len(ret.value.l) <= arg.num_results

\* the queries are built from the snapshot's company_name, which is "N/A" when
\* the metadata has no longName entry and None when the entry is null
QueriesFromSnapshotName ==
    \A i \in 1..(Len(calls) - 3) :
        /\ BuiltFrom(i, Format(stock_data.d["company_name"]))
        /\ ~BuiltFrom(i, company_name)
        /\ "longName" \notin DOMAIN info_reply.value => BuiltFrom(i, NA)
        /\ Get(info_reply.value, "longName", Str(NA)) = None => BuiltFrom(i, NoneText)

====
